---- MODULE Spec2Model ----
(***************************************************************************)
(* ModOverseer: the reconciliation loop of overseer.py (modqueue_check)    *)
(* and the token handling of reddit.py (token_request, get_access_token,   *)
(* get_mod_queue), as one state machine.                                   *)
(*                                                                         *)
(* pc names the await at which the modqueue_check coroutine is suspended.  *)
(* One action resumes the coroutine from that await and runs the           *)
(* synchronous code that follows, up to the next await.  The remote        *)
(* services (Reddit, the Discord channel) are the environment: what they   *)
(* answer is drawn with \E, and messages can be deleted out-of-band at any *)
(* time.                                                                   *)
(*                                                                         *)
(* now is datetime.datetime.now() in seconds since the first cycle; it     *)
(* advances when the coroutine sleeps.  MaxTime caps it: a sleep that      *)
(* would end after MaxTime is not taken.                                   *)
(*                                                                         *)
(* Spec is one run of the process.  ReadySpec adds a repeated on_ready,    *)
(* RestartSpec a restart of the process between cycles and StopSpec the    *)
(* close of the bot.                                                       *)
(***************************************************************************)
EXTENDS Integers, Sequences, FiniteSets, TLC

\* ---------------------------------------------------------------- bounds
Ids == {"a", "b"}          \* entry ids the queue can hold
MaxLen == 2                \* longest listing returned by one fetch
MaxTime == 120             \* the clock stops at MaxTime seconds
MaxRestarts == 1           \* restarts of the process

\* ------------------------------------------------------ program constants
NominalSleep == 120        \* asyncio.sleep(120)
Backoff == 60              \* asyncio.sleep(60)
Cooldown == 300            \* datetime.timedelta(minutes=5)
SafetyMargin == 10         \* data['expires_in'] - 10
None == 0                  \* self.token = None / self.api_session = None
NoExpiry == -1             \* self.expire_time = None
NoSuffix == -1             \* channel.name without a "·<n>" suffix

VARIABLES
    \* ModOverseer
    queue_map,             \* dict entry id -> message id, in insertion order
    last_channel_update,   \* instant of the last channel rename
    \* modqueue_check coroutine
    pc,                    \* the await at which the coroutine is suspended
    entries,               \* the fetched listing: sequence of <<kind, id>>
    i,                     \* index of the current entry of "for r in entries"
    fetching,              \* the message id passed to the pending safe_get_message
    temp,                  \* what is left of "for entry_id, msg_id in temp.items()"
    delay,                 \* argument of the pending asyncio.sleep
    now,                   \* the clock
    restarts,              \* times the process was started again
    \* RedditClient
    token, expire_time,
    api_session,           \* id of the session self.api_session refers to, or None
    auth_session,          \* state of the session self.auth_session refers to
    sessions,              \* state ("open" or "closed") of every authenticated
                           \* session the client created, by id
    \* ModOverseer.close coroutine
    stop_pc,               \* "idle", "auth" (in auth_session.close()),
                           \* "api" (in api_session.close()) or "done"
    \* files and remote services
    queue_json,            \* the file queue.json
    messages,              \* ids of the messages that exist in the channel
    channel_name,          \* the "·<n>" suffix of channel.name
    \* observation of the current cycle
    status,                \* "none", "running", "ok", "no_guild", "no_channel", "failed"
    error,                 \* class of the exception the cycle caught
    failed_at,             \* the await (pc) at which that exception surfaced
    ops,                   \* channel calls that succeeded in this cycle
    start_map,             \* queue_map when the cycle started
    prev,                  \* the cycle before: status, failed exchange
    auth_case,             \* what the token_request wrapper found: "no_token",
                           \* "expired", "valid" or "undefined" (token without expiry)
    exchanges,             \* result of each refresh exchange of this call
    get_sent,              \* the modqueue GET went out in this cycle
    malformed,             \* the listing answered to that GET held an item that
                           \* is neither a comment nor a link
    rename_call            \* <<t>> when the last channel.edit was called at t,
                           \* <<>> before the first call

bot == <<queue_map, last_channel_update>>
task == <<pc, entries, i, fetching, temp, delay, now, restarts>>
reddit == <<token, expire_time, api_session, auth_session, sessions>>
closer == <<stop_pc>>
world == <<queue_json, messages, channel_name>>
seen == <<status, error, failed_at, ops, start_map, prev, auth_case, exchanges, get_sent,
          malformed, rename_call>>
vars == <<bot, task, reddit, closer, world, seen>>

\* ------------------------------------------------------------ dict helpers
\* A dict is a sequence of <<key, value>> pairs with distinct keys.
Has(d, k) == \E x \in 1..Len(d) : d[x][1] = k

Get(d, k) == d[CHOOSE x \in 1..Len(d) : d[x][1] = k][2]

Del(d, k) == SelectSeq(d, LAMBDA p : p[1] # k)

Keys(d) == {d[x][1] : x \in 1..Len(d)}

Values(d) == {d[x][2] : x \in 1..Len(d)}

Range(s) == {s[x] : x \in 1..Len(s)}

\* ------------------------------------------------------------------ inputs
\* The children of the listing the modqueue endpoint answers with: each a
\* <<kind, id>> pair; "t1" is a comment, "t3" a link, "t5" anything else.
\* The code does not check that the ids of one listing are distinct.
Kinds == {"t1", "t3", "t5"}

Listings == UNION {[1..n -> Kinds \X Ids] : n \in 0..MaxLen}

\* current_ids = [e.id for e in entries]
EntryIds(es) == [x \in 1..Len(es) |-> es[x][2]]

Distinct(s) == \A x, y \in 1..Len(s) : x # y => s[x] # s[y]

\* queue.json as the process finds it at its first start: absent, or what
\* an earlier deployment wrote; the messages it names may have been deleted
\* since.
Files ==
    {[kind |-> "absent", data |-> <<>>]}
    \cup {[kind |-> "json", data |-> d] :
            d \in {<<>>, <<<<"a", 1>>>>, <<<<"b", 2>>>>, <<<<"a", 1>>, <<"b", 2>>>>}}

\* access_token and expires_in values the auth endpoint answers with.
Tokens == {1}

Lifetimes == {10, 250}

\* Seconds between the construction of the bot and its first cycle.
ConnectDelays == {0, Cooldown + 1}

\* The JSON body the auth endpoint can answer the refresh exchange with.
\* "undecodable" is a body resp.json() raises on; access_kind "absent" and
\* expires_kind "absent" are missing keys, "null" a JSON null, "invalid" a
\* non-numeric value.
Responses ==
    {[status |-> "undecodable", access_kind |-> "absent", access_token |-> None,
      expires_kind |-> "absent", expires_in |-> 0]}
    \cup {[status |-> "json", access_kind |-> a[1], access_token |-> a[2],
           expires_kind |-> k[1], expires_in |-> k[2]] :
            a \in {<<"absent", None>>, <<"null", None>>} \cup {<<"str", t>> : t \in Tokens},
            k \in {<<"absent", 0>>, <<"invalid", 0>>} \cup {<<"int", l>> : l \in Lifetimes}}

\* --------------------------------------------------------------- reddit.py
\* Faulty variant: items of an unknown kind are dropped and the rest is kept.
ModelValidateSkips(children) ==
    [raised |-> FALSE,
     children |-> SelectSeq(children, LAMBDA c : c[1] \in {"t1", "t3"})]

\* RedditListing.model_validate on the children, discriminated by kind: the
\* entries, or a ValidationError raised when one item has another kind.
ModelValidate(children) ==
    IF \E x \in 1..Len(children) : children[x][1] \notin {"t1", "t3"}
    THEN [raised |-> TRUE, children |-> <<>>]
    ELSE [raised |-> FALSE, children |-> children]

\* Faulty variant: only a missing token triggers a refresh.
TokenCheckIgnoresExpiry(tok, exp, t) ==
    IF tok = None THEN "refresh" ELSE "valid"

\* The test of the token_request wrapper: "refresh", "valid", or the
\* TypeError of comparing a datetime with None.
TokenCheck(tok, exp, t) ==
    IF tok = None THEN "refresh"
    ELSE IF exp = NoExpiry THEN "TypeError"
    ELSE IF t >= exp THEN "refresh"
    ELSE "valid"

\* get_access_token at instant t, from "data = await resp.json()" on: the
\* client fields after the body resp, and the value returned.  The token is
\* assigned before expires_in is read; a complete body creates a new
\* aiohttp.ClientSession and assigns it to api_session.
GetAccessToken(tok, exp, session, opened, t, resp) ==
    IF resp.status # "json" \/ resp.access_kind = "absent"
    THEN [token |-> tok, expire_time |-> exp, api_session |-> session,
          sessions |-> opened, ok |-> FALSE]
    ELSE IF resp.expires_kind # "int"
    THEN [token |-> resp.access_token, expire_time |-> exp, api_session |-> session,
          sessions |-> opened, ok |-> FALSE]
    ELSE [token |-> resp.access_token,
          expire_time |-> t + resp.expires_in - SafetyMargin,
          api_session |-> Len(opened) + 1,
          sessions |-> Append(opened, "open"), ok |-> TRUE]

\* stop: the authenticated sessions after "if self.api_session: await
\* self.api_session.close()".
StopClosed(session, opened) ==
    IF session = None THEN opened ELSE [opened EXCEPT ![session] = "closed"]

\* -------------------------------------------------------------- overseer.py
\* embed_from_queue_entry on an entry of the given kind.  For a link it
\* reads entry.post_url, for a comment entry.mod_reports: neither
\* QueueLinkEntry nor QueueCommentEntry has that attribute, so the call
\* raises AttributeError and returns no embed.
EmbedFromQueueEntry(kind) ==
    IF kind = "t1"
    THEN [raised |-> TRUE, error |-> "AttributeError", attribute |-> "mod_reports"]
    ELSE [raised |-> TRUE, error |-> "AttributeError", attribute |-> "post_url"]

\* Faulty variant: the lookup never finds the message.
SafeGetMessageNever(msgs, message_id) == FALSE

\* safe_get_message: TRUE when fetch_message finds the message, FALSE for
\* the None returned on discord.NotFound.
SafeGetMessage(msgs, message_id) == message_id \in msgs

\* The bindings of queue_map the "entries that are now gone" pass acts on:
\* those whose entry id is not in current_ids.
Gone(d, current_ids) == SelectSeq(d, LAMBDA p : p[1] \notin Range(current_ids))

\* Whether the channel is renamed: the derived name differs and the
\* cooldown has passed.
RenameDue(name, es, t, last) == name # Len(es) /\ t - last > Cooldown

\* on_ready: the mapping after loading queue.json over the mapping current;
\* a missing or undecodable file leaves it as it is.
LoadQueue(file, current) == IF file.kind = "json" THEN file.data ELSE current

\* Faulty variant: the exception leaves the loop.
RaiseEscapes(e) ==
    /\ pc' = "crashed"
    /\ delay' = delay
    /\ status' = "failed"
    /\ error' = e
    /\ failed_at' = pc

\* Faulty variant: the handler sleeps as long as a completed cycle.
RaiseNominal(e) ==
    /\ pc' = "sleep"
    /\ delay' = NominalSleep
    /\ status' = "failed"
    /\ error' = e
    /\ failed_at' = pc

\* An exception reaching "except Exception": log and sleep(60).
Raise(e) ==
    /\ pc' = "sleep"
    /\ delay' = Backoff
    /\ status' = "failed"
    /\ error' = e
    /\ failed_at' = pc

\* The coroutine goes on to another await of the same cycle.
Await(at) ==
    /\ pc' = at
    /\ UNCHANGED <<delay, status, error, failed_at>>

\* __init__ of ModOverseer and RedditClient, then the first on_ready, which
\* loads queue.json when there is one.
Init ==
    /\ queue_json \in Files
    /\ messages \in SUBSET Values(queue_json.data)
    /\ queue_map = LoadQueue(queue_json, <<>>)
    /\ last_channel_update \in {0 - d : d \in ConnectDelays}
    /\ pc = "wait"
    /\ entries = <<>>
    /\ i = 1
    /\ fetching = None
    /\ temp = <<>>
    /\ delay = 0
    /\ now = 0
    /\ restarts = 0
    /\ token = None
    /\ expire_time = NoExpiry
    /\ api_session = None
    /\ auth_session = "open"
    /\ sessions = <<>>
    /\ stop_pc = "idle"
    /\ channel_name = NoSuffix
    /\ status = "none"
    /\ error = "none"
    /\ failed_at = "none"
    /\ ops = <<>>
    /\ start_map = <<>>
    /\ prev = [status |-> "none", auth_failed |-> FALSE]
    /\ auth_case = "none"
    /\ exchanges = <<>>
    /\ get_sent = FALSE
    /\ malformed = FALSE
    /\ rename_call = <<>>

\* "while self.is_ready(): try:" with is_ready() true: a cycle starts.
StartCycle ==
    /\ pc = "wait"
    /\ pc' = "call"
    /\ entries' = <<>>
    /\ i' = 1
    /\ fetching' = None
    /\ temp' = <<>>
    /\ status' = "running"
    /\ error' = "none"
    /\ failed_at' = "none"
    /\ ops' = <<>>
    /\ start_map' = queue_map
    /\ prev' = [status |-> status, auth_failed |-> FALSE \in Range(exchanges)]
    /\ auth_case' = "none"
    /\ exchanges' = <<>>
    /\ get_sent' = FALSE
    /\ malformed' = FALSE
    /\ UNCHANGED <<bot, delay, now, restarts, reddit, closer, world, rename_call>>

\* is_ready() false: the loop ends and modqueue_check returns.
LoopExit ==
    /\ pc = "wait"
    /\ pc' = "exited"
    /\ UNCHANGED <<bot, entries, i, fetching, temp, delay, now, restarts, reddit, closer,
                   world, seen>>

\* The wrapper calls get_mod_queue, which opens the GET on the session
\* api_session refers to: AttributeError without a session, RuntimeError on
\* a closed one.
IssueGet(session, opened) ==
    IF session = None
    THEN Raise("AttributeError") /\ get_sent' = get_sent
    ELSE IF opened[session] # "open"
    THEN Raise("RuntimeError") /\ get_sent' = get_sent
    ELSE Await("get") /\ get_sent' = TRUE

\* token_request.wrapper: the test of the token, and with a missing or
\* expired token get_access_token up to its POST.  A POST that fails makes
\* get_access_token return False; the wrapper discards that value and
\* calls get_mod_queue.  With a valid token get_mod_queue is called at once.
TokenRequest ==
    /\ pc = "call"
    /\ auth_case' = IF token = None THEN "no_token"
                    ELSE IF expire_time = NoExpiry THEN "undefined"
                    ELSE IF now >= expire_time THEN "expired" ELSE "valid"
    /\ LET c == TokenCheck(token, expire_time, now) IN
       \/ /\ c = "TypeError"
          /\ Raise("TypeError")
          /\ UNCHANGED <<exchanges, get_sent>>
       \/ /\ c = "valid"
          /\ IssueGet(api_session, sessions)
          /\ exchanges' = exchanges
       \/ /\ c = "refresh"
          /\ exchanges' = Append(exchanges, FALSE)
          /\ IssueGet(api_session, sessions)
       \/ /\ c = "refresh"
          /\ auth_session = "open"
          /\ Await("token_json")
          /\ UNCHANGED <<exchanges, get_sent>>
    /\ UNCHANGED <<bot, entries, i, fetching, temp, now, restarts, reddit, closer, world, ops,
                   start_map, prev, malformed, rename_call>>

\* get_access_token from "data = await resp.json()" on, then the call of
\* get_mod_queue by the wrapper.
TokenBody ==
    /\ pc = "token_json"
    /\ \E resp \in Responses :
         LET r == GetAccessToken(token, expire_time, api_session, sessions, now, resp) IN
         /\ token' = r.token
         /\ expire_time' = r.expire_time
         /\ api_session' = r.api_session
         /\ sessions' = r.sessions
         /\ auth_session' = auth_session
         /\ exchanges' = Append(exchanges, r.ok)
         /\ IssueGet(r.api_session, r.sessions)
    /\ UNCHANGED <<bot, entries, i, fetching, temp, now, restarts, closer, world, ops,
                   start_map, prev, auth_case, malformed, rename_call>>

\* get_mod_queue: the GET is answered and raise_for_status passes, or the
\* GET fails.  A session closed under the pending GET fails it.
GetModQueue ==
    /\ pc = "get"
    /\ \/ Raise("ClientResponseError")
       \/ /\ sessions[api_session] = "open"
          /\ Await("listing")
    /\ UNCHANGED <<bot, entries, i, fetching, temp, now, restarts, reddit, closer, world, ops,
                   start_map, prev, auth_case, exchanges, get_sent, malformed, rename_call>>

\* "with open("queue.json", "w") as f: json.dump(self.queue_map, f)" and the
\* sleep(120) that ends the cycle.  open truncates the file, so a write that
\* fails leaves the old file or a partial one.
Persist(qm) ==
    \/ /\ queue_json' = [kind |-> "json", data |-> qm]
       /\ pc' = "sleep"
       /\ delay' = NominalSleep
       /\ status' = "ok"
       /\ UNCHANGED <<error, failed_at>>
    \/ /\ queue_json' \in {queue_json, [kind |-> "partial", data |-> <<>>]}
       /\ Raise("OSError")

\* The rename test after the passes: with a rename due the coroutine
\* awaits channel.edit, otherwise it goes on to write queue.json.
Finish(qm, es) ==
    IF RenameDue(channel_name, es, now, last_channel_update)
    THEN /\ Await("rename")
         /\ rename_call' = <<now>>
         /\ queue_json' = queue_json
    ELSE /\ Persist(qm)
         /\ rename_call' = rename_call

\* The "entries that are now gone" loop with the bindings tmp left: it
\* awaits the lookup of the first, or is done.
GonePass(tmp, qm, es) ==
    IF tmp # <<>>
    THEN /\ Await("gone_fetch")
         /\ UNCHANGED <<queue_json, rename_call>>
    ELSE Finish(qm, es)

\* get_mod_queue from "js = await resp.json()" on, then modqueue_check up to
\* its next await: the guild and channel lookups, the first entry of "for r
\* in entries", and with an empty listing the gone pass.  An entry that is
\* not bound needs its embed for channel.send; a bound one is looked up
\* first.  get_mod_queue returns a list or raises, so the "entries is None"
\* branch is never taken.
ReadListing ==
    /\ pc = "listing"
    /\ \/ /\ Raise("ContentTypeError")
          /\ UNCHANGED <<entries, fetching, temp, malformed, queue_json, rename_call>>
       \/ \E children \in Listings, guild, channel \in BOOLEAN :
            LET v == ModelValidate(children)
                es == v.children IN
            /\ malformed' = \E x \in 1..Len(children) : children[x][1] \notin {"t1", "t3"}
            /\ IF v.raised
               THEN /\ Raise("ValidationError")
                    /\ UNCHANGED <<entries, fetching, temp, queue_json, rename_call>>
               ELSE /\ entries' = es
                    /\ IF ~guild \/ ~channel
                       THEN /\ pc' = "sleep"
                            /\ delay' = NominalSleep
                            /\ status' = IF ~guild THEN "no_guild" ELSE "no_channel"
                            /\ UNCHANGED <<error, failed_at, fetching, temp, queue_json,
                                           rename_call>>
                       ELSE IF es = <<>>
                       THEN /\ temp' = Gone(queue_map, EntryIds(es))
                            /\ fetching' = fetching
                            /\ GonePass(temp', queue_map, es)
                       ELSE IF Has(queue_map, es[1][2])
                       THEN /\ fetching' = Get(queue_map, es[1][2])
                            /\ Await("fetch")
                            /\ UNCHANGED <<temp, queue_json, rename_call>>
                       ELSE LET embed == EmbedFromQueueEntry(es[1][1]) IN
                            /\ embed.raised
                            /\ Raise(embed.error)
                            /\ UNCHANGED <<fetching, temp, queue_json, rename_call>>
    /\ UNCHANGED <<bot, i, now, restarts, reddit, closer, messages, channel_name, ops,
                   start_map, prev, auth_case, exchanges, get_sent>>

\* A bound entry of "for r in entries", from the answer of safe_get_message
\* on: fetch_message raised, or the message was found and msg.edit needs the
\* embed, or it was not found and channel.send needs it.
ProcessEntry ==
    /\ pc = "fetch"
    /\ \/ Raise("HTTPException")
       \/ LET embed == EmbedFromQueueEntry(entries[i][1]) IN
          IF SafeGetMessage(messages, fetching)
          THEN embed.raised /\ Raise(embed.error)
          ELSE embed.raised /\ Raise(embed.error)
    /\ UNCHANGED <<bot, entries, i, fetching, temp, now, restarts, reddit, closer, world, ops,
                   start_map, prev, auth_case, exchanges, get_sent, malformed, rename_call>>

\* "del self.queue_map[entry_id]" for the first binding of temp, then the
\* rest of the gone pass up to its next await.
DropEntry ==
    LET entry_id == Head(temp)[1] IN
    IF Has(queue_map, entry_id)
    THEN /\ queue_map' = Del(queue_map, entry_id)
         /\ temp' = Tail(temp)
         /\ GonePass(Tail(temp), queue_map', entries)
    ELSE /\ Raise("KeyError")
         /\ UNCHANGED <<queue_map, temp, queue_json, rename_call>>

\* A binding of the gone pass, from the answer of safe_get_message on:
\* fetch_message raised, or the message was found and msg.delete() is
\* awaited, or it was not found and the binding is dropped.
GoneEntry ==
    /\ pc = "gone_fetch"
    /\ \/ /\ Raise("HTTPException")
          /\ UNCHANGED <<queue_map, temp, queue_json, rename_call>>
       \/ /\ SafeGetMessage(messages, Head(temp)[2])
          /\ Await("delete")
          /\ UNCHANGED <<queue_map, temp, queue_json, rename_call>>
       \/ /\ ~SafeGetMessage(messages, Head(temp)[2])
          /\ DropEntry
    /\ UNCHANGED <<last_channel_update, entries, i, fetching, now, restarts, reddit, closer,
                   messages, channel_name, ops, start_map, prev, auth_case, exchanges,
                   get_sent, malformed>>

\* The answer of msg.delete(): refused, or NotFound for a message deleted
\* since the lookup, or the message is deleted and the binding dropped.
DeleteMessage ==
    /\ pc = "delete"
    /\ LET entry_id == Head(temp)[1]
           msg_id == Head(temp)[2] IN
       \/ /\ Raise("HTTPException")
          /\ UNCHANGED <<queue_map, temp, messages, ops, queue_json, rename_call>>
       \/ /\ msg_id \notin messages
          /\ Raise("NotFound")
          /\ UNCHANGED <<queue_map, temp, messages, ops, queue_json, rename_call>>
       \/ /\ msg_id \in messages
          /\ messages' = messages \ {msg_id}
          /\ ops' = Append(ops, <<"delete", entry_id, msg_id>>)
          /\ DropEntry
    /\ UNCHANGED <<last_channel_update, entries, i, fetching, now, restarts, reddit, closer,
                   channel_name, start_map, prev, auth_case, exchanges, get_sent, malformed>>

\* The answer of channel.edit(name=new_name): refused, or the channel is
\* renamed, last_channel_update set and queue.json written.
UpdateChannel ==
    /\ pc = "rename"
    /\ \/ /\ Raise("HTTPException")
          /\ UNCHANGED <<last_channel_update, channel_name, queue_json>>
       \/ /\ channel_name' = Len(entries)
          /\ last_channel_update' = now
          /\ Persist(queue_map)
    /\ UNCHANGED <<queue_map, entries, i, fetching, temp, now, restarts, reddit, closer,
                   messages, ops, start_map, prev, auth_case, exchanges, get_sent, malformed,
                   rename_call>>

\* asyncio.sleep(delay) returns.
Sleep ==
    /\ pc = "sleep"
    /\ now + delay <= MaxTime
    /\ now' = now + delay
    /\ pc' = "wait"
    /\ UNCHANGED <<bot, entries, i, fetching, temp, delay, restarts, reddit, closer, world,
                   seen>>

\* A moderator deletes a message of the channel.
OobDelete ==
    /\ \E m \in messages : messages' = messages \ {m}
    /\ UNCHANGED <<bot, task, reddit, closer, queue_json, channel_name, seen>>

\* on_ready on a later READY of the gateway: queue.json is loaded over the
\* mapping in memory.  modqueue_check.start() then raises, the task being
\* started already.
OnReady ==
    /\ queue_map' = LoadQueue(queue_json, queue_map)
    /\ UNCHANGED <<last_channel_update, task, reddit, closer, world, seen>>

\* The process ends between two cycles and is started again: __init__, then
\* on_ready.  The file and the channel are what the first process left.
Restart ==
    /\ restarts < MaxRestarts
    /\ pc \in {"wait", "sleep", "exited"}
    /\ restarts' = restarts + 1
    /\ queue_map' = LoadQueue(queue_json, <<>>)
    /\ last_channel_update' = now
    /\ pc' = "wait"
    /\ entries' = <<>>
    /\ i' = 1
    /\ fetching' = None
    /\ temp' = <<>>
    /\ delay' = 0
    /\ token' = None
    /\ expire_time' = NoExpiry
    /\ api_session' = None
    /\ auth_session' = "open"
    /\ sessions' = <<>>
    /\ stop_pc' = "idle"
    /\ status' = "none"
    /\ error' = "none"
    /\ failed_at' = "none"
    /\ ops' = <<>>
    /\ start_map' = <<>>
    /\ prev' = [status |-> status, auth_failed |-> FALSE]
    /\ auth_case' = "none"
    /\ exchanges' = <<>>
    /\ get_sent' = FALSE
    /\ malformed' = FALSE
    /\ UNCHANGED <<now, world, rename_call>>

\* ModOverseer.close calls RedditClient.stop, which closes auth_session and
\* awaits.  The bot is not closed and modqueue_check is not cancelled.
Stop ==
    /\ stop_pc = "idle"
    /\ auth_session' = "closed"
    /\ stop_pc' = "auth"
    /\ UNCHANGED <<bot, task, token, expire_time, api_session, sessions, world, seen>>

\* stop after auth_session.close(): "if self.api_session: await
\* self.api_session.close()".
StopApi ==
    /\ stop_pc = "auth"
    /\ sessions' = StopClosed(api_session, sessions)
    /\ stop_pc' = IF api_session = None THEN "done" ELSE "api"
    /\ UNCHANGED <<bot, task, token, expire_time, api_session, auth_session, world, seen>>

\* stop returns after api_session.close().
StopDone ==
    /\ stop_pc = "api"
    /\ stop_pc' = "done"
    /\ UNCHANGED <<bot, task, reddit, world, seen>>

Next ==
    \/ StartCycle
    \/ LoopExit
    \/ TokenRequest
    \/ TokenBody
    \/ GetModQueue
    \/ ReadListing
    \/ ProcessEntry
    \/ GoneEntry
    \/ DeleteMessage
    \/ UpdateChannel
    \/ Sleep
    \/ OobDelete

Spec == Init /\ [][Next]_vars

\* The event loop resumes a coroutine whose await has completed, and the
\* answers of the remote services arrive.
FairSpec == Spec /\ WF_vars(Sleep) /\ WF_vars(StartCycle \/ LoopExit)

\* With the gateway reconnecting: on_ready runs again at any time.
NextReady == Next \/ OnReady

ReadySpec == Init /\ [][NextReady]_vars

\* With the bot being closed at any time.
NextStop == Next \/ Stop \/ StopApi \/ StopDone

StopSpec == Init /\ [][NextStop]_vars

\* With the process being started again between cycles.
NextRestart == Next \/ Restart

RestartSpec == Init /\ [][NextRestart]_vars

\* ------------------------------------------------------------ observations
Creates == {x \in 1..Len(ops) : ops[x][1] = "create"}
Edits == {x \in 1..Len(ops) : ops[x][1] = "edit"}
Deletes == {x \in 1..Len(ops) : ops[x][1] = "delete"}

\* Messages bound when the cycle started that have left the channel
\* without the cycle deleting them: they were deleted out-of-band.
Lost ==
    {m \in Values(start_map) :
        m \notin messages /\ ~\E x \in Deletes : ops[x][3] = m}

\* The cycle got its listing: the fetch went through and was validated.
Fetched ==
    \/ status \in {"ok", "no_guild", "no_channel"}
    \/ /\ status = "failed"
       /\ \/ failed_at \in {"fetch", "gone_fetch", "delete", "rename"}
          \/ failed_at = "listing" /\ error \notin {"ContentTypeError", "ValidationError"}

\* The cycle is over, it found the guild and the channel and got a listing
\* of distinct ids, the channel refused none of its calls and the file
\* write did not fail.
Reconciled ==
    /\ pc = "sleep"
    /\ Fetched
    /\ status \in {"ok", "failed"}
    /\ error \notin {"HTTPException", "NotFound", "OSError"}
    /\ Distinct(EntryIds(entries))

\* ------------------------------------------------------------------ claims
\* C1 (fresh start, as claimed): a cycle that ran against an empty mapping
\* on a non-empty snapshot of distinct ids has created exactly one message
\* per entry, edited and deleted none, and queue_map binds every entry id
\* of the snapshot.
C1_FreshStart ==
    (Reconciled /\ start_map = <<>> /\ entries # <<>>) =>
        /\ Cardinality(Creates) = Len(entries)
        /\ Edits = {} /\ Deletes = {}
        /\ Keys(queue_map) = Range(EntryIds(entries))

\* C2 (steady state, as claimed): a cycle on a snapshot S whose ids are
\* exactly the keys of the mapping, every bound message being in the
\* channel, has issued len(S) edits, no create and no delete, and left
\* queue_map as it was.
C2_SteadyState ==
    (/\ Reconciled
     /\ entries # <<>>
     /\ Keys(start_map) = Range(EntryIds(entries))
     /\ Values(start_map) \subseteq messages) =>
        /\ Cardinality(Edits) = Len(entries)
        /\ Creates = {} /\ Deletes = {}
        /\ queue_map = start_map

\* The cycle ran on the snapshot of the mapping's keys minus e, and no
\* bound message was deleted out-of-band.
Removed(e) ==
    /\ Reconciled
    /\ Has(start_map, e)
    /\ Range(EntryIds(entries)) = Keys(start_map) \ {e}
    /\ Lost = {}

\* C3 (removal, as claimed): after Removed(e) the cycle has issued exactly
\* one delete, of the message that was bound to e, and one edit per
\* remaining entry; queue_map has lost e and kept every other binding.
C3_Removal ==
    \A e \in Ids :
        Removed(e) =>
            /\ Cardinality(Deletes) = 1
            /\ \A x \in Deletes : ops[x] = <<"delete", e, Get(start_map, e)>>
            /\ Cardinality(Edits) = Len(entries)
            /\ queue_map = Del(start_map, e)

\* The lookup of a bound entry of the snapshot is pending and its message
\* is no longer in the channel.
Stale ==
    /\ pc = "fetch"
    /\ fetching \notin messages

\* C4 (self-healing, as claimed): the step that handles an entry bound to a
\* message that no longer exists creates a new message and rebinds the
\* entry to its id, which differs from the stale one; the cycle fails at
\* that entry only when the channel refuses the call itself.
C4_SelfHealing ==
    [][(Stale /\ pc' # "fetch") =>
         \/ error' = "HTTPException"
         \/ /\ status' = "running"
            /\ Cardinality(Creates') = Cardinality(Creates) + 1
            /\ Has(queue_map', entries[i][2])
            /\ Get(queue_map', entries[i][2]) # fetching
            /\ Get(queue_map', entries[i][2]) \in messages']_vars

\* A delete of a message failed in this cycle.
MessageCallFailed ==
    /\ status = "failed"
    /\ failed_at = "delete"
    /\ error \in {"HTTPException", "NotFound"}

\* C5 (per-entry isolation, as claimed): when a create, edit or delete of
\* the cycle has failed, every other entry of the cycle has still been
\* attempted: no binding but the failing one is left in the gone pass.
C5_Isolation ==
    MessageCallFailed => Len(temp) <= 1

\* C6 (commit after partial application, as claimed): at the end of a cycle
\* that applied sink calls, also when a later delete failed, queue.json
\* holds the mapping those calls produced.
C6_CommitAfterPartial ==
    (pc = "sleep" /\ ops # <<>> /\ (status = "ok" \/ MessageCallFailed)) =>
        queue_json = [kind |-> "json", data |-> queue_map]

\* C7 (the loop survives failures): whatever exception ended a cycle, the
\* coroutine is in sleep(60) or past it, never out of the loop body; and a
\* cycle that ended on an exception or on a missing guild or channel is
\* followed, unless the clock has run out, by the start of another cycle
\* or by the loop test finding the client no longer ready.
C7_LoopSurvives ==
    /\ [](status = "failed" =>
            (pc \in {"sleep", "wait", "exited"} /\ delay = Backoff))
    /\ (/\ status \in {"failed", "no_guild", "no_channel"}
        /\ pc = "sleep"
        /\ now + delay <= MaxTime) ~> (pc \in {"call", "exited"})

C7_Witness ==
    /\ prev.status = "failed"
    /\ status = "running"
    /\ pc = "call"

\* C8 (refresh count): a call that found no token or an expired one
\* performs exactly one refresh exchange, which is over when the GET is
\* sent; a call that found a valid token performs none.
C8_RefreshCount ==
    /\ pc = "token_json" =>
          (auth_case \in {"no_token", "expired"} /\ exchanges = <<>> /\ ~get_sent)
    /\ (auth_case \in {"no_token", "expired"} /\ pc # "token_json") => Len(exchanges) = 1
    /\ auth_case = "valid" => Len(exchanges) = 0
    /\ get_sent => auth_case \in {"no_token", "expired", "valid"}

C8_Witness ==
    /\ auth_case = "expired"
    /\ Len(exchanges) = 1
    /\ pc = "get"
    /\ get_sent

\* C9 (no request after a failed refresh, as claimed): when the refresh
\* exchange of a call failed, the GET of that call is not sent.
C9_NoGetAfterFailedRefresh ==
    (FALSE \in Range(exchanges)) => ~get_sent

\* C10 (auth failure retried, as claimed): when the refresh exchange of the
\* cycle before failed, the call of this cycle performs a refresh exchange.
C10_RefreshRetried ==
    (prev.auth_failed /\ auth_case # "none" /\ pc # "token_json") => exchanges # <<>>

\* The fetch of the cycle failed: the HTTP call, the decoding of its body,
\* or the validation of a listing with a malformed item.
FetchFailed ==
    malformed \/ error \in {"ClientResponseError", "ContentTypeError", "ValidationError"}

\* C11 (a failed fetch fails as a whole): a listing with a malformed item,
\* like a failed HTTP call, ends the cycle as failed with no entries to diff,
\* no create, edit or delete issued and queue_map as it was when the cycle
\* started; and neither the steps up to the fetch nor any step of a cycle
\* whose fetch failed change queue_map, queue.json or the channel's calls.
C11_FetchFailsWhole ==
    /\ [](FetchFailed =>
            /\ status = "failed"
            /\ error \in {"ClientResponseError", "ContentTypeError", "ValidationError"}
            /\ malformed => error = "ValidationError"
            /\ entries = <<>>
            /\ ops = <<>>
            /\ queue_map = start_map)
    /\ [][(pc \in {"call", "token_json", "get"} \/ FetchFailed') =>
            (queue_json' = queue_json /\ queue_map' = queue_map /\ ops' = ops
                /\ messages' \subseteq messages)]_vars

C11_Witness ==
    /\ malformed
    /\ error = "ValidationError"
    /\ start_map # <<>>
    /\ messages # {}
    /\ queue_json = [kind |-> "json", data |-> queue_map]
    /\ pc = "sleep"

\* C12 (label throttle, as claimed): a step that calls channel.edit does so
\* only when the derived name differs from the current one, and more than
\* Cooldown seconds after the previous call of channel.edit.
C12_LabelThrottle ==
    [][rename_call' # rename_call =>
         /\ channel_name # Len(entries')
         /\ rename_call # <<>> => now - rename_call[1] > Cooldown]_vars

\* C13 (atomic persistence, as claimed): queue.json is never observable
\* truncated or undecodable: it is absent (before the first write) or holds
\* a complete mapping.
C13_AtomicPersistence ==
    queue_json.kind \in {"absent", "json"}

\* The gone pass awaits the lookup or the delete of a message that is no
\* longer in the channel.
GoneStale ==
    /\ pc \in {"gone_fetch", "delete"}
    /\ Head(temp)[2] \notin messages

\* C14 (delete tolerates absence, as claimed): the step of the gone pass
\* that finds the message of a gone entry absent raises no error for it: it
\* drops the entry id from queue_map, issues no call that changes the
\* channel and goes on with the rest of the pass; the cycle fails at that
\* entry only when the lookup is refused or the file write fails.
C14_DeleteToleratesAbsence ==
    [][(GoneStale /\ (pc' # pc \/ temp' # temp)) =>
         /\ error' # "NotFound"
         /\ (status' = "failed") => error' \in {"HTTPException", "OSError"}
         /\ (temp' # temp) =>
               /\ temp' = Tail(temp)
               /\ ops' = ops
               /\ queue_map' = Del(queue_map, Head(temp)[1])]_vars

\* C15 (single writer, single load, as claimed): after startup every change
\* of queue_map is a write of the reconciliation loop, made by the step
\* that handles an entry of the snapshot or a gone entry.
C15_SingleWriter ==
    [][queue_map' # queue_map => (i' # i \/ temp' # temp)]_vars

\* C16 (convergence, as claimed): whenever a cycle has completed without
\* error the keys of queue_map are the ids of its snapshot and queue.json
\* holds queue_map; and the first cycle of create-then-same-then-empty, run
\* unbound on the one entry e, completes and yields a mapping that binds e
\* and nothing else.
C16_Convergence ==
    /\ status = "ok" =>
          /\ Keys(queue_map) = Range(EntryIds(entries))
          /\ queue_json = [kind |-> "json", data |-> queue_map]
    /\ (Reconciled /\ start_map = <<>> /\ Len(entries) = 1) =>
          /\ status = "ok"
          /\ Len(queue_map) = 1
          /\ queue_map[1][1] = entries[1][2]

\* C17 (delay selection, as claimed): the loop waits 120 s after a cycle
\* that completed and 60 s after a cycle that ended on a missing guild or
\* channel or on an exception.
C17_DelayAsClaimed ==
    pc = "sleep" =>
        /\ status = "ok" => delay = NominalSleep
        /\ status \in {"no_guild", "no_channel", "failed"} => delay = Backoff

\* C17 (delay selection, amended): the loop waits 120 s after a cycle that
\* completed and also after one that found the guild or the channel
\* missing, and 60 s after a cycle that ended on an exception (auth, fetch,
\* channel call or file write); the next loop test comes exactly that long
\* after the cycle ended.
C17_DelaySelection ==
    /\ [](pc = "sleep" =>
            /\ status \in {"ok", "no_guild", "no_channel", "failed"}
            /\ status \in {"ok", "no_guild", "no_channel"} => delay = NominalSleep
            /\ status = "failed" => delay = Backoff)
    /\ [][(pc = "sleep" /\ pc' # "sleep") =>
            (pc' = "wait" /\ now' = now + delay)]_vars

C17_Witness ==
    /\ pc = "wait"
    /\ status \in {"no_guild", "no_channel"}
    /\ now = NominalSleep

\* C18 (no orphaned or duplicated mirror messages): between cycles every
\* message in the channel is bound to exactly one entry id of queue_map,
\* and the bound message ids are pairwise distinct.
C18_NoOrphans ==
    pc \in {"wait", "sleep"} =>
        /\ \A m \in messages :
              Cardinality({x \in 1..Len(queue_map) : queue_map[x][2] = m}) = 1
        /\ \A x, y \in 1..Len(queue_map) :
              x # y => queue_map[x][2] # queue_map[y][2]

\* Between two cycles of a restarted process that failed its last cycle: one
\* bound message was deleted out-of-band, the other is in the channel.
C18_Witness ==
    /\ restarts = 1
    /\ pc = "sleep"
    /\ status = "failed"
    /\ Len(queue_map) = 2
    /\ Cardinality(messages) = 1

\* C19 (credential update all-or-nothing, as claimed): a refresh exchange
\* that failed left token, expire_time and api_session as they were, so a
\* client that holds a token also holds its expiry and a session.
C19_AllOrNothing ==
    /\ [][(Len(exchanges') = Len(exchanges) + 1 /\ ~exchanges'[Len(exchanges')]) =>
            UNCHANGED <<token, expire_time, api_session>>]_vars
    /\ [](token # None => (expire_time # NoExpiry /\ api_session # None))

\* Ids of the authenticated sessions that are open.
OpenSessions == {x \in 1..Len(sessions) : sessions[x] = "open"}

\* C20 (session lifecycle, as claimed): the exchange session stays open
\* until stop, at most one authenticated session is open at any time, and
\* after stop every session the client created is closed.
C20_SessionLifecycle ==
    /\ stop_pc = "idle" => auth_session = "open"
    /\ Cardinality(OpenSessions) <= 1
    /\ stop_pc = "done" => (auth_session = "closed" /\ OpenSessions = {})

====
